---- MODULE Spec2Model ----
(***************************************************************************)
(* A model of sudoku.py: the Cell objects, the SudokuSolver that owns the   *)
(* grid and the list of cells, and the backtracking loop run_solve/solve.   *)
(* Python lists are modelled as sequences; every coordinate and index kept  *)
(* in the state is the 0-based Python value, and a negative list index      *)
(* wraps around as it does in Python.                                       *)
(***************************************************************************)
EXTENDS Integers, Sequences, FiniteSets, TLC

VARIABLES
    input,           \* the grid handed to solve(puzzle), as it was at the call
    puzzle,          \* SudokuSolver.puzzle: the grid, mutated in place
    solve_puzzle,    \* SudokuSolver.solve_puzzle: the list of Cell objects
    backtrack_coord, \* SudokuSolver.backtrack_coord: the search cursor
    cell,            \* the local `cell` of decrement_cell (index of the object), -1 outside it
    pc               \* where the call solve(puzzle) stands

vars == <<input, puzzle, solve_puzzle, backtrack_coord, cell, pc>>

(***************************************************************************)
(* Bounds of the model.                                                    *)
(***************************************************************************)
\* inputs: the solved grid with its last 0..MaxBlank cells (row-major) blanked
MaxBlank == 21
\* inputs: the same with at most MaxDupBlank cells blanked and one clue of the
\* first row (its last or its first cell) overwritten
MaxDupBlank == 12
\* inputs: the solved grid with its digits shifted by 0..MaxRelabel
MaxRelabel == 4
\* decrement_cell stops incrementing a current_index that has reached MaxCursor
MaxCursor == 10

(***************************************************************************)
(* The grid literals of the source.                                        *)
(***************************************************************************)
ExamplePuzzle ==
    << <<5, 3, 0, 0, 7, 0, 0, 0, 0>>,
       <<6, 0, 0, 1, 9, 5, 0, 0, 0>>,
       <<0, 9, 8, 0, 0, 0, 0, 6, 0>>,
       <<8, 0, 0, 0, 6, 0, 0, 0, 3>>,
       <<4, 0, 0, 8, 0, 3, 0, 0, 1>>,
       <<7, 0, 0, 0, 2, 0, 0, 0, 6>>,
       <<0, 6, 0, 0, 0, 0, 2, 8, 0>>,
       <<0, 0, 0, 4, 1, 9, 0, 0, 5>>,
       <<0, 0, 0, 0, 8, 0, 0, 7, 9>> >>

solution ==
    << <<5, 3, 4, 6, 7, 8, 9, 1, 2>>,
       <<6, 7, 2, 1, 9, 5, 3, 4, 8>>,
       <<1, 9, 8, 3, 4, 2, 5, 6, 7>>,
       <<8, 5, 9, 7, 6, 1, 4, 2, 3>>,
       <<4, 2, 6, 8, 5, 3, 7, 9, 1>>,
       <<7, 1, 3, 9, 2, 4, 8, 5, 6>>,
       <<9, 6, 1, 5, 3, 7, 2, 8, 4>>,
       <<2, 8, 7, 4, 1, 9, 6, 3, 5>>,
       <<3, 4, 5, 2, 8, 6, 1, 7, 9>> >>

(***************************************************************************)
(* Python helpers.                                                         *)
(***************************************************************************)
\* the values of a list, as a set
Range(s) == {s[i] : i \in 1..Len(s)}

\* set(range(1, 10))
Digits == 1..9

\* list(a set) that yields the largest value first
SetToList_descending(S) ==
    [i \in 1..Cardinality(S) |-> CHOOSE x \in S : Cardinality({y \in S : y > x}) = i - 1]

\* list(a set of small ints): CPython iterates it in ascending order
SetToList(S) ==
    [i \in 1..Cardinality(S) |-> CHOOSE x \in S : Cardinality({y \in S : y < x}) = i - 1]

\* a Python local variable: F applied to the value of v, with v evaluated once
Bind(v, F(_)) == CHOOSE r \in {F(x) : x \in {v}} : TRUE

\* lst[i] is defined for -len(lst) <= i <= len(lst) - 1; otherwise IndexError
InRange(lst, i) == -Len(lst) <= i /\ i <= Len(lst) - 1

\* the 0-based position of the object lst[i] (a negative i counts from the end)
Pos(lst, i) == IF i < 0 THEN i + Len(lst) ELSE i

\* lst[i]
At(lst, i) == lst[Pos(lst, i) + 1]

(***************************************************************************)
(* SudokuSolver: the grid accessors.                                       *)
(***************************************************************************)
\* int(len(self.puzzle) ** .5)
box_size(p) == CHOOSE b \in 0..Len(p) : b * b <= Len(p) /\ Len(p) < (b + 1) * (b + 1)

get_row(p, row_number) == p[row_number + 1]

get_column(p, column_number) == [i \in 1..Len(p) |-> p[i][column_number + 1]]

find_box_start(p, coordinate) == (coordinate \div box_size(p)) * box_size(p)

\* get_box_coordinates that returns the start of the row first
get_box_coordinates_swapped(p, row_number, column_number) ==
    <<find_box_start(p, row_number), find_box_start(p, column_number)>>

get_box_coordinates(p, row_number, column_number) ==
    <<find_box_start(p, column_number), find_box_start(p, row_number)>>

\* start[1] is start_y, the first column of the box; start[2] is start_x, its first row
get_box(p, row_number, column_number) ==
    Bind(get_box_coordinates(p, row_number, column_number), LAMBDA start :
    Bind(box_size(p), LAMBDA bs :
        [k \in 1..(bs * bs) |->
            p[start[2] + ((k - 1) \div bs) + 1][start[1] + ((k - 1) % bs) + 1]]))

(***************************************************************************)
(* Cell.  An operation on a cell that may write the grid takes the cell     *)
(* and the grid and returns both.                                          *)
(***************************************************************************)
check_area(area) ==
    LET values == SelectSeq(area, LAMBDA item : item # 0)
    IN Len(values) = Cardinality(Range(values))

\* possibilities[current_index] is out of range: set_number raises IndexError
set_number_raises(c) == ~c.solved /\ c.current_index >= Len(c.possibilities)

set_number(c, p) ==
    IF ~c.solved
    THEN [cell |-> [c EXCEPT !.number = c.possibilities[c.current_index + 1]],
          puzzle |-> [p EXCEPT ![c.row + 1][c.column + 1] =
                                   c.possibilities[c.current_index + 1]]]
    ELSE [cell |-> c, puzzle |-> p]

handle_one_possibility(c, p) ==
    IF Len(c.possibilities) = 1
    THEN set_number([c EXCEPT !.solved = TRUE], p)
    ELSE [cell |-> c, puzzle |-> p]

\* find_possibilities that leaves the box out
find_possibilities_no_box(c, p) ==
    LET items == Range(get_row(p, c.row) \o get_column(p, c.column))
        left == SelectSeq(c.possibilities, LAMBDA d : d \notin items)
    IN handle_one_possibility([c EXCEPT !.possibilities = left], p)

find_possibilities(c, p) ==
    LET items == Range(get_row(p, c.row) \o get_column(p, c.column)
                           \o get_box(p, c.row, c.column))
        left == SelectSeq(c.possibilities, LAMBDA d : d \notin items)
    IN handle_one_possibility([c EXCEPT !.possibilities = left], p)

\* Cell.__init__ that marks no cell solved, whatever its number
Cell_never_solved(column_number, row_number, number, p) ==
    find_possibilities([solved |-> FALSE,
                        number |-> number,
                        possibilities |-> SetToList(Digits),
                        row |-> row_number,
                        column |-> column_number,
                        current_index |-> 0], p)

\* Cell.__init__
Cell(column_number, row_number, number, p) ==
    LET solved == number > 0
        c == [solved |-> solved,
              number |-> number,
              possibilities |-> IF ~solved THEN SetToList(Digits) ELSE <<>>,
              row |-> row_number,
              column |-> column_number,
              current_index |-> 0]
    IN IF ~solved THEN find_possibilities(c, p) ELSE [cell |-> c, puzzle |-> p]

\* is_valid that leaves the box out
is_valid_no_box(c, p) ==
    /\ check_area(get_row(p, c.row))
    /\ check_area(get_column(p, c.column))

\* is_valid that leaves the column out
is_valid_no_column(c, p) ==
    /\ check_area(get_row(p, c.row))
    /\ check_area(get_box(p, c.row, c.column))

is_valid(c, p) ==
    /\ check_area(get_row(p, c.row))
    /\ check_area(get_column(p, c.column))
    /\ check_area(get_box(p, c.row, c.column))

\* increment_value that scans the candidates again from the first one
RECURSIVE increment_value_loop(_, _)
increment_value_loop(c, p) ==
    IF ~is_valid(c, p) /\ c.current_index < Len(c.possibilities) - 1
    THEN Bind(set_number([c EXCEPT !.current_index = c.current_index + 1], p),
              LAMBDA s : increment_value_loop(s.cell, s.puzzle))
    ELSE [cell |-> c, puzzle |-> p]

increment_value_restart(c, p) ==
    IF c.solved \/ c.possibilities = <<>>
    THEN [cell |-> c, puzzle |-> p]
    ELSE Bind(set_number([c EXCEPT !.current_index = 0], p),
              LAMBDA s : increment_value_loop(s.cell, s.puzzle))

\* increment_value that moves on once before it looks at the cell
increment_value_eager(c, p) ==
    IF c.current_index < Len(c.possibilities) - 1
    THEN Bind(set_number([c EXCEPT !.current_index = c.current_index + 1], p),
              LAMBDA s : increment_value_loop(s.cell, s.puzzle))
    ELSE [cell |-> c, puzzle |-> p]

RECURSIVE increment_value(_, _)
increment_value(c, p) ==
    IF ~is_valid(c, p) /\ c.current_index < Len(c.possibilities) - 1
    THEN Bind(set_number([c EXCEPT !.current_index = c.current_index + 1], p),
              LAMBDA s : increment_value(s.cell, s.puzzle))
    ELSE [cell |-> c, puzzle |-> p]

(***************************************************************************)
(* SudokuSolver: the cursor.                                               *)
(***************************************************************************)
\* move_forward that stops one cell early
move_forward_short(sp, coord) ==
    IF coord >= Len(sp) - 2 THEN coord
    ELSE CHOOSE k \in coord..(Len(sp) - 2) :
            /\ ~(k < Len(sp) - 2 /\ At(sp, k).solved)
            /\ \A j \in coord..(k - 1) : At(sp, j).solved

\* the loop of move_forward ends at the first position, from coord on, where
\* its condition (not yet at the last cell, and the cell is solved) fails
move_forward(sp, coord) ==
    IF coord >= Len(sp) - 1 THEN coord
    ELSE CHOOSE k \in coord..(Len(sp) - 1) :
            /\ ~(k < Len(sp) - 1 /\ At(sp, k).solved)
            /\ \A j \in coord..(k - 1) : At(sp, j).solved

\* the loop of backtrack ends at the first position, from coord down, that
\* holds an open cell or is out of range (where the lookup raises IndexError)
backtrack_loop(sp, coord) ==
    CHOOSE k \in (-Len(sp) - 1)..coord :
        /\ ~(InRange(sp, k) /\ At(sp, k).solved)
        /\ \A j \in (k + 1)..coord : InRange(sp, j) /\ At(sp, j).solved

\* backtrack without its first decrement
backtrack_stay(sp, coord) == backtrack_loop(sp, coord)

backtrack(sp, coord) == backtrack_loop(sp, coord - 1)

\* reset_cell that leaves the grid entry as it is
reset_cell_keep_grid(c, p) ==
    [cell |-> [c EXCEPT !.current_index = 0, !.number = 0], puzzle |-> p]

reset_cell(c, p) ==
    [cell |-> [c EXCEPT !.current_index = 0, !.number = 0],
     puzzle |-> [p EXCEPT ![c.row + 1][c.column + 1] = 0]]

\* decrement_cell as a whole, from the point where its local `cell` is the
\* object at position i and the cursor is coord: the cells, the grid and the
\* cursor it leaves, and whether the lookup after backtrack raised IndexError
RECURSIVE decrement_cell(_, _, _, _)
decrement_cell(sp, p, coord, i) ==
    IF sp[i + 1].current_index = Len(sp[i + 1].possibilities) - 1
    THEN Bind(reset_cell(sp[i + 1], p), LAMBDA s :
         Bind(backtrack(sp, coord), LAMBDA back :
            IF InRange(sp, back)
            THEN decrement_cell([sp EXCEPT ![i + 1] = s.cell], s.puzzle, back, Pos(sp, back))
            ELSE [solve_puzzle |-> [sp EXCEPT ![i + 1] = s.cell],
                  puzzle |-> s.puzzle,
                  backtrack_coord |-> back,
                  raises |-> TRUE]))
    ELSE [solve_puzzle |-> [sp EXCEPT ![i + 1].current_index = @ + 1],
          puzzle |-> p,
          backtrack_coord |-> coord,
          raises |-> FALSE]

(***************************************************************************)
(* The inputs of the model.                                                *)
(***************************************************************************)
EmptyGrid == [r \in 1..Len(solution) |-> [c \in 1..Len(solution) |-> 0]]

\* g with its last j cells (in row-major order) set to 0
BlankTail(g, j) ==
    [r \in 1..Len(g) |-> [c \in 1..Len(g) |->
        IF (r - 1) * Len(g) + (c - 1) >= Len(g) * Len(g) - j THEN 0 ELSE g[r][c]]]

\* g with the last cell of its first row overwritten by d
Overwrite(g, d) == [g EXCEPT ![1][Len(g)] = d]

\* g with its first cell overwritten by d
OverwriteFirst(g, d) == [g EXCEPT ![1][1] = d]

\* g with every digit d replaced by d + k, wrapping around from 9 to 1
Relabel(g, k) ==
    [r \in 1..Len(g) |-> [c \in 1..Len(g) |->
        IF g[r][c] = 0 THEN 0 ELSE ((g[r][c] - 1 + k) % Cardinality(Digits)) + 1]]

Inputs ==
    {ExamplePuzzle, EmptyGrid}
    \cup {Relabel(solution, k) : k \in 0..MaxRelabel}
    \cup {BlankTail(solution, j) : j \in 0..MaxBlank}
    \cup {Overwrite(BlankTail(solution, j), d) : j \in 0..MaxDupBlank, d \in Digits}
    \cup {OverwriteFirst(BlankTail(solution, j), d) : j \in 0..MaxDupBlank, d \in Digits}

(***************************************************************************)
(* solve(puzzle): SudokuSolver(puzzle), initialize_board(), run_solve().    *)
(***************************************************************************)
Init ==
    /\ input \in Inputs
    /\ puzzle = input
    /\ solve_puzzle = <<>>
    /\ backtrack_coord = 0
    /\ cell = -1
    /\ pc = "initialize_board"

\* one iteration of the loops of initialize_board: the next Cell is built
initialize_board ==
    /\ pc = "initialize_board"
    /\ \E row_number \in {Len(solve_puzzle) \div Len(puzzle)},
          column_number \in {Len(solve_puzzle) % Len(puzzle)} :
         \E s \in {Cell(column_number, row_number,
                        puzzle[row_number + 1][column_number + 1], puzzle)} :
            /\ solve_puzzle' = Append(solve_puzzle, s.cell)
            /\ puzzle' = s.puzzle
            /\ pc' = IF Len(solve_puzzle) + 1 = Len(puzzle) * Len(puzzle)
                     THEN "run_solve" ELSE "initialize_board"
    /\ UNCHANGED <<input, backtrack_coord, cell>>

\* one iteration of run_solve: solve(), up to the branch of change_cells
solve ==
    /\ pc = "run_solve"
    /\ backtrack_coord <= Len(solve_puzzle) - 1
    /\ \E coord \in {move_forward(solve_puzzle, backtrack_coord)} :
         IF set_number_raises(At(solve_puzzle, coord))
         THEN /\ pc' = "IndexError"
              /\ backtrack_coord' = coord
              /\ UNCHANGED <<puzzle, solve_puzzle, cell>>
         ELSE \E s1 \in {set_number(At(solve_puzzle, coord), puzzle)} :
              \E s2 \in {increment_value(s1.cell, s1.puzzle)} :
                 /\ solve_puzzle' =
                        [solve_puzzle EXCEPT ![Pos(solve_puzzle, coord) + 1] = s2.cell]
                 /\ puzzle' = s2.puzzle
                 /\ IF is_valid(s2.cell, s2.puzzle)
                    THEN /\ backtrack_coord' = coord + 1
                         /\ pc' = "run_solve"
                         /\ cell' = -1
                    ELSE /\ backtrack_coord' = coord
                         /\ pc' = "decrement_cell"
                         /\ cell' = Pos(solve_puzzle, coord)
    /\ UNCHANGED input

\* decrement_cell, one iteration of its loop: reset_cell, backtrack, next cell
decrement_cell_loop ==
    /\ pc = "decrement_cell"
    /\ solve_puzzle[cell + 1].current_index = Len(solve_puzzle[cell + 1].possibilities) - 1
    /\ \E s \in {reset_cell(solve_puzzle[cell + 1], puzzle)},
          coord \in {backtrack(solve_puzzle, backtrack_coord)} :
         /\ solve_puzzle' = [solve_puzzle EXCEPT ![cell + 1] = s.cell]
         /\ puzzle' = s.puzzle
         /\ backtrack_coord' = coord
         /\ IF InRange(solve_puzzle, coord)
            THEN pc' = "decrement_cell" /\ cell' = Pos(solve_puzzle, coord)
            ELSE pc' = "IndexError" /\ cell' = cell
    /\ UNCHANGED input

\* decrement_cell, after its loop: cell.current_index += 1, and solve() returns
decrement_cell_exit ==
    /\ pc = "decrement_cell"
    /\ solve_puzzle[cell + 1].current_index # Len(solve_puzzle[cell + 1].possibilities) - 1
    /\ solve_puzzle[cell + 1].current_index < MaxCursor
    /\ solve_puzzle' = [solve_puzzle EXCEPT ![cell + 1].current_index = @ + 1]
    /\ pc' = "run_solve"
    /\ cell' = -1
    /\ UNCHANGED <<input, puzzle, backtrack_coord>>

\* run_solve leaves its loop and solve(puzzle) returns solver.puzzle
run_solve_return ==
    /\ pc = "run_solve"
    /\ backtrack_coord > Len(solve_puzzle) - 1
    /\ pc' = "done"
    /\ UNCHANGED <<input, puzzle, solve_puzzle, backtrack_coord, cell>>

Next ==
    \/ initialize_board
    \/ solve
    \/ decrement_cell_loop
    \/ decrement_cell_exit
    \/ run_solve_return

Spec == Init /\ [][Next]_vars

\* the interpreter always runs the next statement of a call that has not ended
FairSpec == Spec /\ WF_vars(Next)

(***************************************************************************)
(* Vocabulary of the properties.                                           *)
(***************************************************************************)
\* the grids of the model have the side of the source's literals
Coords == 1..Len(solution)

\* the side of a box
BoxSide == CHOOSE b \in Coords : b * b = Len(solution)

\* the two positions lie in the same box (stated on the coordinates alone)
SameBox(r1, c1, r2, c2) ==
    ((r1 - 1) \div BoxSide = (r2 - 1) \div BoxSide)
        /\ ((c1 - 1) \div BoxSide = (c2 - 1) \div BoxSide)

\* the entries of the row, column and box of a position
RowSet(g, r) == {g[r][c] : c \in Coords}
ColSet(g, c) == {g[r][c] : r \in Coords}
BoxSet(g, r0, c0) ==
    {g[rc[1]][rc[2]] : rc \in {x \in Coords \X Coords : SameBox(r0, c0, x[1], x[2])}}

\* the top-left corners of the boxes
Corners == {x \in Coords : (x - 1) % BoxSide = 0}

\* every row, column and box holds every digit (so each exactly once, and
\* every entry is a digit): each is a permutation of the digits
ValidSudoku(g) ==
    /\ \A r \in Coords : RowSet(g, r) = Digits
    /\ \A c \in Coords : ColSet(g, c) = Digits
    /\ \A r0 \in Corners, c0 \in Corners : BoxSet(g, r0, c0) = Digits

\* the valid completed grids the model knows: the solved grid, relabelled
Completions ==
    {s \in {Relabel(solution, k) : k \in 0..(Cardinality(Digits) - 1)} : ValidSudoku(s)}

\* g has a valid completion among them.  On the inputs of the model this is
\* exact: an overwritten clue repeats a digit of its row.
HasCompletion(g) ==
    \E s \in Completions : \A r \in Coords, c \in Coords : g[r][c] # 0 => s[r][c] = g[r][c]

\* some row of g holds the same nonzero digit twice
RowDuplicate(g) ==
    \E r \in Coords, c1 \in Coords, c2 \in Coords :
        c1 # c2 /\ g[r][c1] # 0 /\ g[r][c1] = g[r][c2]

\* the position of cell k (1-based in solve_puzzle) in the grid, 1-based
RowOf(k) == ((k - 1) \div Len(solution)) + 1
ColOf(k) == ((k - 1) % Len(solution)) + 1

\* the coordinates that share a band of boxes with coordinate x
Band(x) == {y \in Coords : (y - 1) \div BoxSide = (x - 1) \div BoxSide}

\* no two positions of the set hold the same nonzero digit in g: there are
\* as many nonzero positions as there are nonzero digits
NoDuplicate(g, cells) ==
    Cardinality({x \in cells : g[x[1]][x[2]] # 0})
        = Cardinality({g[x[1]][x[2]] : x \in cells} \ {0})

\* the row, the column and the box of position (r, c) hold no nonzero digit twice
Consistent(g, r, c) ==
    /\ NoDuplicate(g, {r} \X Coords)
    /\ NoDuplicate(g, Coords \X {c})
    /\ NoDuplicate(g, Band(r) \X Band(c))

\* the first open cell (1-based in solve_puzzle) from k on, or one past the last cell
NextOpen(k) ==
    CHOOSE j \in k..(Len(solve_puzzle) + 1) :
        /\ j <= Len(solve_puzzle) => ~solve_puzzle[j].solved
        /\ \A i \in k..(j - 1) : solve_puzzle[i].solved

\* the candidates of cell k, in ascending numeric order, that leave its row,
\* column and box without duplicate when written in g
Options(g, k) ==
    SelectSeq([d \in Digits |-> d], LAMBDA d :
        /\ d \in Range(solve_puzzle[k].possibilities)
        /\ Consistent([g EXCEPT ![RowOf(k)][ColOf(k)] = d], RowOf(k), ColOf(k)))

\* the first grid, in depth-first order (open cells in row-major order, the
\* options of each in ascending order), that extends g by a value for every
\* open cell from k on, each valid when it is written; <<>> when there is none
RECURSIVE FirstValid(_, _), FirstOf(_, _, _)
FirstValid(g, k) ==
    IF k > Len(solve_puzzle) THEN g ELSE FirstOf(g, k, Options(g, k))

FirstOf(g, k, opts) ==
    IF opts = <<>> THEN <<>>
    ELSE Bind(FirstValid([g EXCEPT ![RowOf(k)][ColOf(k)] = Head(opts)], NextOpen(k + 1)),
              LAMBDA rest : IF rest # <<>> THEN rest ELSE FirstOf(g, k, Tail(opts)))

\* the run has ended with the cursor past the last cell
Solved == pc = "done" /\ backtrack_coord = Len(solve_puzzle)

(***************************************************************************)
(* C1.  Whenever run ends with the cursor past the last cell, for an input  *)
(* that has a valid completion, every entry of the grid is in 1..9 and      *)
(* every row, column and box is a permutation of the digits.                *)
(* Refuted: a cell fixed by handle_one_possibility is never written.        *)
(***************************************************************************)
C1_SolvedOutputValid == (Solved /\ HasCompletion(input)) => ValidSudoku(puzzle)

(***************************************************************************)
(* C2.  A Cell constructed for an empty position with exactly one          *)
(* candidate left commits at once: it is fixed, its value is that           *)
(* candidate, and so is the grid entry at its coordinate.                   *)
(* Refuted: set_number runs after solved is set, and does nothing.          *)
(***************************************************************************)
C2_SingleCandidateCommits ==
    pc = "initialize_board" =>
        \A k \in 1..Len(solve_puzzle) :
            (input[RowOf(k)][ColOf(k)] = 0 /\ Len(solve_puzzle[k].possibilities) = 1) =>
                /\ solve_puzzle[k].solved
                /\ solve_puzzle[k].number = solve_puzzle[k].possibilities[1]
                /\ puzzle[RowOf(k)][ColOf(k)] = solve_puzzle[k].possibilities[1]

(***************************************************************************)
(* C3.  On the example puzzle solve returns the grid literal solution       *)
(* (first row 5 3 4 6 7 8 9 1 2, last row 3 4 5 2 8 6 1 7 9).               *)
(* Refuted: the returned grid holds 0 at the four cells fixed at            *)
(* construction.                                                            *)
(***************************************************************************)
C3_ExampleSolved ==
    input = ExamplePuzzle =>
        /\ pc # "IndexError"
        /\ pc = "done" => puzzle = solution

(***************************************************************************)
(* C4.  In every state of initialization and run, and in the returned       *)
(* grid, every position that held a nonzero digit in the input still holds  *)
(* that digit.                                                              *)
(***************************************************************************)
C4_CluesKept ==
    \A r \in Coords, c \in Coords : input[r][c] # 0 => puzzle[r][c] = input[r][c]

\* the loop of decrement_cell has reset a cell and retreated to an accepted
\* cell, in a run whose input has clues and whose grid has been written
C4_Witness ==
    /\ pc = "decrement_cell"
    /\ backtrack_coord >= 0
    /\ HasCompletion(input)
    /\ is_valid(solve_puzzle[cell + 1], puzzle)
    /\ solve_puzzle[cell + 1].number # 0
    /\ \E r \in Coords, c \in Coords : input[r][c] # 0
    /\ \E r \in Coords, c \in Coords : input[r][c] = 0 /\ puzzle[r][c] # 0

(***************************************************************************)
(* C5.  For every input that has a valid completion, run eventually ends    *)
(* with the cursor equal to the number of cells (one past the last cell),   *)
(* and the cursor never drops below 0 on the way.                           *)
(***************************************************************************)
C5_SolvableTerminates ==
    /\ HasCompletion(input) ~> Solved
    /\ [](HasCompletion(input) => backtrack_coord >= 0)

\* a run on an input with a completion has ended past the last cell, after
\* some cell had to move on from its first candidate
C5_Witness ==
    /\ HasCompletion(input)
    /\ Solved
    /\ \E k \in 1..Len(solve_puzzle) : solve_puzzle[k].current_index > 0

(***************************************************************************)
(* C6.  For an input with the same nonzero digit twice in a row, solve      *)
(* ends in an explicit Unsolvable outcome: the cursor is never driven out   *)
(* of bounds, no index fault is raised, and the run does not return as if   *)
(* it had solved the grid.                                                  *)
(* Refuted: the code has no such outcome; the cursor underflows.            *)
(***************************************************************************)
C6_DuplicateRowUnsolvable ==
    RowDuplicate(input) =>
        /\ 0 <= backtrack_coord
        /\ backtrack_coord <= Len(input) * Len(input)
        /\ pc # "IndexError"
        /\ pc # "done"

(***************************************************************************)
(* C7.  Given the all-zero grid, solve terminates, and the resulting grid   *)
(* is a valid completed Sudoku.                                             *)
(***************************************************************************)
C7_EmptyGridSolved == (input = EmptyGrid) ~> (Solved /\ ValidSudoku(puzzle))

C7_Witness == input = EmptyGrid /\ Solved /\ ValidSudoku(puzzle)

(***************************************************************************)
(* C8.  On a grid that is already a valid completed Sudoku, every cell is   *)
(* marked fixed, the run ends after a single step of the main loop (the     *)
(* cursor goes from 0 to past the last cell), and no grid entry changes.    *)
(***************************************************************************)
C8_SolvedGridIdempotent ==
    /\ [](ValidSudoku(input) =>
            /\ puzzle = input
            /\ pc \in {"initialize_board", "run_solve", "done"}
            /\ \A k \in 1..Len(solve_puzzle) : solve_puzzle[k].solved
            /\ pc = "run_solve" => backtrack_coord \in {0, Len(solve_puzzle)}
            /\ pc = "done" => backtrack_coord = Len(solve_puzzle))
    /\ ValidSudoku(input) ~> Solved

C8_Witness == ValidSudoku(input) /\ Solved /\ puzzle = input

(***************************************************************************)
(* C9.  For every grid state and every empty position, the candidate        *)
(* sequence computed when the Cell is constructed holds exactly the digits  *)
(* 1..9 that are not a nonzero digit of the position's row, column or box   *)
(* in the grid at that moment, each once.                                   *)
(***************************************************************************)
C9_CandidatesComputed ==
    [][(pc = "initialize_board"
            /\ puzzle[RowOf(Len(solve_puzzle) + 1)][ColOf(Len(solve_puzzle) + 1)] = 0) =>
        LET k == Len(solve_puzzle) + 1
            c == solve_puzzle'[k]
            seen == RowSet(puzzle, RowOf(k)) \cup ColSet(puzzle, ColOf(k))
                        \cup BoxSet(puzzle, RowOf(k), ColOf(k))
        IN /\ Range(c.possibilities) = Digits \ seen
           /\ Len(c.possibilities) = Cardinality(Digits \ seen)]_vars

\* a cell built for an empty position lost some, not all, of its candidates
C9_Witness ==
    \E k \in 1..Len(solve_puzzle) :
        /\ input[RowOf(k)][ColOf(k)] = 0
        /\ Len(solve_puzzle[k].possibilities) > 1
        /\ Len(solve_puzzle[k].possibilities) < Cardinality(Digits)

(***************************************************************************)
(* C10.  Across every transition, the current_index of every cell stays,    *)
(* increases, or is set to 0 by reset_cell: between two resets of a cell    *)
(* its current_index never decreases.                                       *)
(***************************************************************************)
C10_CursorMonotone ==
    [][\A k \in 1..Len(solve_puzzle) :
          \/ solve_puzzle'[k].current_index >= solve_puzzle[k].current_index
          \/ /\ pc = "decrement_cell"
             /\ k = cell + 1
             /\ solve_puzzle'[k].current_index = 0]_vars

\* the loop of decrement_cell has retreated to an accepted cell that had
\* already advanced, leaving behind it a cell that reset_cell has set back to 0
C10_Witness ==
    /\ pc = "decrement_cell"
    /\ backtrack_coord >= 0
    /\ solve_puzzle[cell + 1].current_index > 0
    /\ solve_puzzle[cell + 1].number # 0
    /\ is_valid(solve_puzzle[cell + 1], puzzle)
    /\ \E k \in (cell + 2)..Len(solve_puzzle) :
          /\ ~solve_puzzle[k].solved
          /\ solve_puzzle[k].current_index = 0
          /\ solve_puzzle[k].number = 0
          /\ Len(solve_puzzle[k].possibilities) > 1

C12_RewindPostState ==
    /\ [](( /\ pc = "decrement_cell"
            /\ backtrack_coord >= 0
            /\ ~solve_puzzle[cell + 1].solved
            /\ solve_puzzle[cell + 1].current_index
                    = Len(solve_puzzle[cell + 1].possibilities) - 1) =>
           \A r \in {decrement_cell(solve_puzzle, puzzle, backtrack_coord, cell)} :
              (~r.raises /\ r.backtrack_coord >= 0) =>
                 /\ r.backtrack_coord < backtrack_coord
                 /\ ~solve_puzzle[r.backtrack_coord + 1].solved
                 /\ solve_puzzle[r.backtrack_coord + 1].current_index
                        # Len(solve_puzzle[r.backtrack_coord + 1].possibilities) - 1
                 /\ r.solve_puzzle[r.backtrack_coord + 1].current_index
                        = solve_puzzle[r.backtrack_coord + 1].current_index + 1
                 /\ \A k \in (r.backtrack_coord + 2)..(backtrack_coord + 1) :
                        ~solve_puzzle[k].solved =>
                           /\ solve_puzzle[k].current_index
                                  = Len(solve_puzzle[k].possibilities) - 1
                           /\ r.solve_puzzle[k].current_index = 0
                           /\ r.solve_puzzle[k].number = 0
                           /\ r.puzzle[RowOf(k)][ColOf(k)] = 0
                 /\ \A k \in 1..r.backtrack_coord :
                        r.puzzle[RowOf(k)][ColOf(k)] = puzzle[RowOf(k)][ColOf(k)])
    /\ [][pc = "decrement_cell" =>
            \A r \in {decrement_cell(solve_puzzle, puzzle, backtrack_coord, cell)} :
               IF pc' = "decrement_cell"
               THEN decrement_cell(solve_puzzle', puzzle', backtrack_coord', cell') = r
               ELSE /\ solve_puzzle' = r.solve_puzzle
                    /\ puzzle' = r.puzzle
                    /\ backtrack_coord' = r.backtrack_coord
                    /\ (pc' = "IndexError") = r.raises]_vars

\* decrement_cell has just returned with the cursor in range: the open cell at
\* the cursor still holds the candidate it was accepted with, its
\* current_index has moved on to the next one, and an open cell behind it
\* is back at 0
C12_Witness ==
    /\ pc = "run_solve"
    /\ backtrack_coord >= 0
    /\ backtrack_coord < Len(solve_puzzle)
    /\ ~solve_puzzle[backtrack_coord + 1].solved
    /\ solve_puzzle[backtrack_coord + 1].current_index > 0
    /\ solve_puzzle[backtrack_coord + 1].number
          = solve_puzzle[backtrack_coord + 1].possibilities[
                solve_puzzle[backtrack_coord + 1].current_index]
    /\ \E k \in (backtrack_coord + 2)..Len(solve_puzzle) :
          /\ ~solve_puzzle[k].solved
          /\ solve_puzzle[k].current_index = 0
          /\ solve_puzzle[k].number = 0
          /\ puzzle[RowOf(k)][ColOf(k)] = 0

(***************************************************************************)
(* C13.  When decrement_cell is entered on a rejected open cell and every   *)
(* open cell before it is at its last candidate index too, backtrack takes  *)
(* the cursor below 0 and the run ends there, in the out-of-bounds fault.   *)
(* Refuted: a negative cursor indexes the list from its end, so the rewind  *)
(* goes on among the last cells and the run continues.                      *)
(***************************************************************************)
C13_ExhaustedUnderflowFaults ==
    ( /\ pc = "decrement_cell"
      /\ backtrack_coord >= 0
      /\ cell = backtrack_coord
      /\ \A k \in 1..(backtrack_coord + 1) :
            ~solve_puzzle[k].solved =>
                solve_puzzle[k].current_index = Len(solve_puzzle[k].possibilities) - 1 ) =>
        \A r \in {decrement_cell(solve_puzzle, puzzle, backtrack_coord, cell)} :
            r.backtrack_coord < 0 /\ r.raises

(***************************************************************************)
(* C14.  A non-fixed cell built with an empty candidate sequence is never   *)
(* assigned: its number and its grid entry stay 0, and a run on such an     *)
(* input is ended by the underflow of the cursor in backtrack, never by a   *)
(* fault raised with the cursor still in range (such as set_number          *)
(* indexing the empty sequence).                                            *)
(* Refuted: set_number raises IndexError when the cursor reaches the cell.  *)
(***************************************************************************)
C14_EmptyCandidatesUnderflow ==
    \A k \in 1..Len(solve_puzzle) :
        (~solve_puzzle[k].solved /\ solve_puzzle[k].possibilities = <<>>) =>
            /\ solve_puzzle[k].number = 0
            /\ puzzle[RowOf(k)][ColOf(k)] = 0
            /\ pc # "done"
            /\ pc = "IndexError" => ~InRange(solve_puzzle, backtrack_coord)

(***************************************************************************)
(* C15.  In a step that commits an open cell with at least one candidate    *)
(* at index k, increment_value leaves current_index at the smallest         *)
(* j >= k whose candidate gives the cell a row, column and box without      *)
(* duplicate, or at the last index with the cell still invalid when there   *)
(* is none; the number of the cell and its grid entry are then              *)
(* possibilities[current_index], and no other grid entry has changed.       *)
(***************************************************************************)
C15_AdvanceUntilValid ==
    [][(pc = "run_solve" /\ pc' \in {"run_solve", "decrement_cell"}) =>
        \A i \in {IF pc' = "decrement_cell" THEN cell'
                              ELSE Pos(solve_puzzle, backtrack_coord' - 1)} :
          (~solve_puzzle[i + 1].solved /\ solve_puzzle[i + 1].possibilities # <<>>) =>
            LET c == solve_puzzle[i + 1]
                d == solve_puzzle'[i + 1]
                k == c.current_index
                j == d.current_index
                last == Len(c.possibilities) - 1
                Valid(n) == Consistent([puzzle EXCEPT ![c.row + 1][c.column + 1] =
                                                        c.possibilities[n + 1]],
                                       c.row + 1, c.column + 1)
            IN /\ k <= j /\ j <= last
               /\ \A n \in k..(j - 1) : ~Valid(n)
               /\ Valid(j) \/ j = last
               /\ d.number = c.possibilities[j + 1]
               /\ puzzle' = [puzzle EXCEPT ![c.row + 1][c.column + 1] = c.possibilities[j + 1]]
               /\ d.possibilities = c.possibilities]_vars

\* increment_value has just left an open cell with several candidates at its
\* last candidate, written in the grid and still in conflict
C15_Witness ==
    /\ pc = "decrement_cell"
    /\ cell = backtrack_coord
    /\ ~solve_puzzle[cell + 1].solved
    /\ Len(solve_puzzle[cell + 1].possibilities) > 1
    /\ solve_puzzle[cell + 1].current_index = Len(solve_puzzle[cell + 1].possibilities) - 1
    /\ solve_puzzle[cell + 1].number
          = solve_puzzle[cell + 1].possibilities[Len(solve_puzzle[cell + 1].possibilities)]
    /\ puzzle[RowOf(cell + 1)][ColOf(cell + 1)] = solve_puzzle[cell + 1].number
    /\ ~Consistent(puzzle, RowOf(cell + 1), ColOf(cell + 1))

(***************************************************************************)
(* C16.  For every coordinate (i, j) of the grid, get_box(i, j) is the      *)
(* block of box_size rows from row (i div box_size) * box_size and          *)
(* box_size columns from column (j div box_size) * box_size, flattened      *)
(* row by row, and so holds the entry at (i, j); and every Cell carries     *)
(* the row and the column of its own position, which are the arguments      *)
(* it hands to get_box.  The boxes are compared on the grid as handed in    *)
(* and on the grid that the run leaves.                                     *)
(***************************************************************************)
C16_BoxOfCoordinate ==
    /\ (solve_puzzle = <<>> \/ pc \in {"done", "IndexError"}) =>
          \A i \in 0..(Len(puzzle) - 1), j \in 0..(Len(puzzle) - 1) :
             \A box \in {get_box(puzzle, i, j)} :
                /\ box = [n \in 1..(BoxSide * BoxSide) |->
                            puzzle[(i \div BoxSide) * BoxSide + ((n - 1) \div BoxSide) + 1]
                                  [(j \div BoxSide) * BoxSide + ((n - 1) % BoxSide) + 1]]
                /\ box[(i % BoxSide) * BoxSide + (j % BoxSide) + 1] = puzzle[i + 1][j + 1]
    /\ \A k \in 1..Len(solve_puzzle) :
          /\ solve_puzzle[k].row = RowOf(k) - 1
          /\ solve_puzzle[k].column = ColOf(k) - 1

\* a Cell has been built for an empty position whose row and column lie in
\* different bands, and a digit found only in its box is not among its candidates
C16_Witness ==
    \E k \in 1..Len(solve_puzzle) :
        /\ input[RowOf(k)][ColOf(k)] = 0
        /\ Band(RowOf(k)) # Band(ColOf(k))
        /\ \E d \in BoxSet(input, RowOf(k), ColOf(k)) \ {0} :
              /\ d \notin RowSet(input, RowOf(k)) \cup ColSet(input, ColOf(k))
              /\ d \notin BoxSet(input, ColOf(k), RowOf(k))
              /\ d \notin Range(solve_puzzle[k].possibilities)

C18_AheadOfCursorReset ==
    (pc # "initialize_board" /\ InRange(solve_puzzle, backtrack_coord)
                            /\ backtrack_coord >= 0) =>
        \A k \in 1..Len(solve_puzzle) :
            (k - 1 > backtrack_coord /\ ~solve_puzzle[k].solved) =>
                /\ solve_puzzle[k].number = 0
                /\ puzzle[RowOf(k)][ColOf(k)] = 0
                /\ solve_puzzle[k].current_index = 0

(***************************************************************************)
(* C19.  In every state of initialization and run, the current_index of     *)
(* every cell, fixed or not, is 0 when the cell has no candidates and       *)
(* otherwise lies within 0..len(possibilities) - 1.                         *)
(* Refuted: decrement_cell increments the current_index of a fixed last     *)
(* cell that is_valid rejects, and goes on doing so.                        *)
(***************************************************************************)
C19_CandidateCursorInRange ==
    \A k \in 1..Len(solve_puzzle) :
        IF solve_puzzle[k].possibilities = <<>>
        THEN solve_puzzle[k].current_index = 0
        ELSE /\ 0 <= solve_puzzle[k].current_index
             /\ solve_puzzle[k].current_index <= Len(solve_puzzle[k].possibilities) - 1

====
